---- MODULE Spec2Model ----
(***************************************************************************)
(* Model of the domain-scoped crawler of webscraper.py.                    *)
(*                                                                         *)
(* A URL is a sequence of tokens (scheme, host, "/", segment, extension,   *)
(* "?", query ...), so that urlparse, str.endswith, str.strip and          *)
(* str.replace are computed on the text of the URL.  A task is one call of *)
(* Scraper.scrape or Scraper.download_pdf; its identity is the chain of    *)
(* URLs from the root call down to it.  Each action is one stretch of code *)
(* between two points where the task can be suspended or waits for the     *)
(* lock.                                                                   *)
(***************************************************************************)
EXTENDS Integers, Sequences, FiniteSets, TLC

VARIABLES site, loaded, visitedlinks, status_file, files, extralinks,
          lock, tasks, requests, finalizes, faults, main,
          name_url, name_out

\* the argument and the results of create_file / write_pdf when the file
\* naming is exercised on its own
namevars == <<name_url, name_out>>

vars == <<site, loaded, visitedlinks, status_file, files, extralinks,
          lock, tasks, requests, finalizes, faults, main, namevars>>

\* Number of exceptions (transport errors, parse errors, file-system
\* errors) the environment may raise during one run.
MaxFaults == 2

-----------------------------------------------------------------------------
(* URLs of the modelled sites *)

Scheme == "https://"
A == <<Scheme, "h.tld", "/">>
B == <<Scheme, "h.tld", "/", "b">>
C == <<Scheme, "h.tld", "/", "c">>
P == <<Scheme, "h.tld", "/", "p", ".pdf">>
Q == <<Scheme, "h.tld", "/", "p", ".pdf", "?", "v">>
L == <<Scheme, "h.tld", "/", "lxml", "/", "d">>
X == <<Scheme, "o.h.tld", "/", "x">>

AllURLs == {A, B, C, P, Q, L, X}

NoLinks == [u \in AllURLs |-> <<>>]

\* The hrefs of each page, in document order, already resolved by urljoin.
Sites ==
  << [root |-> A, links |-> [NoLinks EXCEPT ![A] = <<B, C>>, ![B] = <<C>>, ![C] = <<A>>]],
     [root |-> A, links |-> [NoLinks EXCEPT ![A] = <<B, P, X>>, ![B] = <<P, X, X>>]],
     [root |-> A, links |-> [NoLinks EXCEPT ![A] = <<Q, L, X, Q>>, ![Q] = <<B>>]],
     [root |-> P, links |-> [NoLinks EXCEPT ![P] = <<P, B>>, ![B] = <<P>>]] >>

Absent == "absent"
Terminal == {"success", "failed"}
Status == {"pending"} \cup Terminal

EmptyLedger == [u \in AllURLs |-> Absent]

\* Contents of linkscraped.json left by an earlier run.
LoadedLedgers ==
  { EmptyLedger,
    [EmptyLedger EXCEPT ![P] = "success"],
    [EmptyLedger EXCEPT ![P] = "failed", ![C] = "success"],
    [EmptyLedger EXCEPT ![B] = "failed"],
    [EmptyLedger EXCEPT ![B] = "pending"] }

-----------------------------------------------------------------------------
(* Text functions *)

\* str.lower on a token.
LowerTok(t) ==
  CASE t = ".PDF" -> ".pdf"
    [] t = "LXML" -> "lxml"
    [] OTHER -> t

Lower(s) == [i \in 1..Len(s) |-> LowerTok(s[i])]

\* Index of the first token of s at or after from that is in set, Len(s)+1 if none.
IndexOfFirst(s, set, from) ==
  LET hits == {i \in from..Len(s) : s[i] \in set}
  IN  IF hits = {} THEN Len(s) + 1
      ELSE CHOOSE i \in hits : \A j \in hits : i <= j

\* urlparse(url).netloc: what follows the scheme up to the first "/", "?" or "#".
Netloc(url) == SubSeq(url, 2, IndexOfFirst(url, {"/", "?", "#"}, 2) - 1)

\* urlparse(url).path: from the first "/" up to the query or fragment.
PathOf(url) ==
  SubSeq(url, IndexOfFirst(url, {"/", "?", "#"}, 2), IndexOfFirst(url, {"?", "#"}, 2) - 1)

\* s.strip(ch)
Strip(s, ch) ==
  LET keep == {i \in 1..Len(s) : s[i] # ch}
  IN  IF keep = {} THEN <<>>
      ELSE SubSeq(s, CHOOSE i \in keep : \A j \in keep : i <= j,
                     CHOOSE i \in keep : \A j \in keep : i >= j)

\* s.replace(old, new)
Replace(s, old, new) == [i \in 1..Len(s) |-> IF s[i] = old THEN new ELSE s[i]]

\* s.endswith(suffix)
EndsWith(s, suffix) == Len(s) >= 1 /\ s[Len(s)] = suffix

\* substring in s
Contains(s, substring) == \E i \in 1..Len(s) : s[i] = substring

data_folder == <<"wscadata">>

create_file(url) ==
  LET stripped == Replace(Strip(PathOf(url), "/"), "/", "_")
      path     == IF stripped = <<>> THEN <<"index">> ELSE stripped
  IN  data_folder \o <<"/">> \o Netloc(url) \o <<"_">> \o path \o <<".txt">>

pdf_filename(url) == Replace(create_file(url), ".txt", ".pdf")

FileNames == {create_file(u) : u \in AllURLs} \cup {pdf_filename(u) : u \in AllURLs}

mainurl == Sites[site].root
domain == Netloc(mainurl)

\* check_link as it would be if it compared the scheme instead of the host
check_link_scheme(url) == url[1] = mainurl[1]

\* lines 86-92
check_link(url) == Netloc(url) = domain

\* The page served at url: its hrefs.
Hrefs(url) == Sites[site].links[url]

\* links after extract_links looked at the first n hrefs of the page.
ExtractedLinks(url, n) == {Hrefs(url)[i] : i \in {j \in 1..n : check_link(Hrefs(url)[j])}}

\* what extract_links sent to add_to_extralinks among the first n hrefs.
ExternalLinks(url, n) ==
  LET NotInDomain(x) == ~check_link(x)
  IN  SelectSeq(SubSeq(Hrefs(url), 1, n), NotInDomain)

Count(s, x) == Cardinality({i \in 1..Len(s) : s[i] = x})

\* line 171: the denylist
Denylisted(link) == Contains(Lower(link), "lxml")

\* line 173: link.lower().endswith(".pdf")
IsPdfLink(link) == EndsWith(Lower(link), ".pdf")

-----------------------------------------------------------------------------
(* Tasks *)

NoTask == <<>>

\* The URL a call was made for, and the call that spawned it.
Url(t) == t[Len(t)]
Parent(t) == SubSeq(t, 1, Len(t) - 1)

RootTask == <<mainurl>>

NewTask(kind) ==
  [kind |-> kind, pc |-> "start", claimed |-> FALSE, resp |-> "none",
   extracted |-> "no", wrote |-> FALSE, links |-> {}, logged |-> <<>>]

Scrapes == {t \in DOMAIN tasks : tasks[t].kind = "scrape"}
Downloads == {t \in DOMAIN tasks : tasks[t].kind = "pdf"}

\* The tasks handed to asyncio.gather by call t.
Children(t) == {c \in DOMAIN tasks : Len(c) = Len(t) + 1 /\ Parent(c) = t}

Finished(t) == tasks[t].pc \in {"done", "raised"}

Running == main = "running"

\* the check of line 151 as it would be if a "pending" entry did not count
ClaimedWhenHandled(url) == visitedlinks[url] \in Terminal

\* line 151 as it would be if only an unfinished entry counted as claimed
ClaimedWhenPending(url) == visitedlinks[url] = "pending"

\* line 151: url in self.file_op.visitedlinks
Claimed(url) == visitedlinks[url] # Absent

\* one assignment self.file_op.visitedlinks[url] = status
SetStatus(url, status) ==
  /\ visitedlinks' = [visitedlinks EXCEPT ![url] = status]
  /\ finalizes' = IF status \in Terminal
                  THEN finalizes \cup {[url |-> url, prev |-> visitedlinks[url], new |-> status]}
                  ELSE finalizes

\* one HTTP GET sent for url
SendGet(url) == requests' = [requests EXCEPT ![url] = @ + 1]

Init ==
  /\ site \in 1..Len(Sites)
  /\ loaded \in LoadedLedgers
  /\ visitedlinks = loaded
  /\ status_file = loaded
  /\ files = [f \in FileNames |-> 0]
  /\ extralinks = [u \in AllURLs |-> 0]
  /\ lock = NoTask
  /\ tasks = [t \in {<<Sites[site].root>>} |-> NewTask("scrape")]
  /\ requests = [u \in AllURLs |-> 0]
  /\ finalizes = {}
  /\ faults = 0
  /\ main = "running"
  /\ name_url = <<>>
  /\ name_out = <<>>

\* async with self.lock: the lock is taken when it is free (lines 150, 158,
\* 162, 192, 195, 199).
LockPoint(t) ==
  \/ tasks[t].kind = "scrape" /\ tasks[t].pc = "start"
  \/ tasks[t].pc \in {"fail_wait", "succ_wait"}

AfterLock(pc) ==
  CASE pc = "start" -> "claim"
    [] pc = "fail_wait" -> "fail_cs"
    [] pc = "succ_wait" -> "succ_cs"

Acquire(t) ==
  /\ Running
  /\ LockPoint(t)
  /\ lock = NoTask
  /\ lock' = t
  /\ tasks' = [tasks EXCEPT ![t].pc = AfterLock(@)]
  /\ UNCHANGED <<namevars, site, loaded, visitedlinks, status_file, files, extralinks,
                 requests, finalizes, faults, main>>

\* the holder of the lock after line 152 if the early return did not release it
LockKeptOnReturn(t) == t

\* line 152: the return inside async with self.lock leaves the block, which
\* releases the lock
LockOnReturn(t) == NoTask

\* scrape, lines 150-156: the claim, then the GET of fetch is sent.
Claim(t) ==
  /\ Running
  /\ tasks[t].kind = "scrape" /\ tasks[t].pc = "claim" /\ lock = t
  /\ lock' = IF Claimed(Url(t)) THEN LockOnReturn(t) ELSE NoTask
  /\ IF Claimed(Url(t))
     THEN /\ tasks' = [tasks EXCEPT ![t].pc = "done"]
          /\ UNCHANGED <<visitedlinks, finalizes, requests>>
     ELSE /\ SetStatus(Url(t), "pending")
          /\ SendGet(Url(t))
          /\ tasks' = [tasks EXCEPT ![t].pc = "fetching", ![t].claimed = TRUE]
  /\ UNCHANGED <<namevars, site, loaded, status_file, files, extralinks, faults, main>>

\* line 157 as it would be without the test of content is None
AfterFetchUnchecked(resp) == "succ_wait"

\* scrape, line 157: where the call goes with the result of fetch.
AfterFetch(resp) == IF resp = "ok" THEN "succ_wait" ELSE "fail_wait"

\* fetch, lines 128-132, and scrape lines 156-157: the response arrives with
\* status 200 ("ok"), with another status ("bad"), or session.get raises
\* ("exc"), which nothing in scrape catches.
FetchResponse(t, resp) ==
  /\ Running
  /\ tasks[t].kind = "scrape" /\ tasks[t].pc = "fetching"
  /\ IF resp = "exc"
     THEN /\ faults < MaxFaults
          /\ faults' = faults + 1
          /\ tasks' = [tasks EXCEPT ![t].pc = "raised", ![t].resp = resp]
     ELSE /\ faults' = faults
          /\ tasks' = [tasks EXCEPT ![t].pc = AfterFetch(resp), ![t].resp = resp]
  /\ UNCHANGED <<namevars, site, loaded, visitedlinks, status_file, files, extralinks,
                 lock, requests, finalizes, main>>

\* scrape, lines 158-160
FinalizeFailed(t) ==
  /\ Running
  /\ tasks[t].kind = "scrape" /\ tasks[t].pc = "fail_cs" /\ lock = t
  /\ SetStatus(Url(t), "failed")
  /\ lock' = NoTask
  /\ tasks' = [tasks EXCEPT ![t].pc = "done"]
  /\ UNCHANGED <<namevars, site, loaded, status_file, files, extralinks, requests, faults, main>>

\* scrape, lines 162-163
FinalizeSuccess(t) ==
  /\ Running
  /\ tasks[t].kind = "scrape" /\ tasks[t].pc = "succ_cs" /\ lock = t
  /\ SetStatus(Url(t), "success")
  /\ lock' = NoTask
  /\ tasks' = [tasks EXCEPT ![t].pc = "process"]
  /\ UNCHANGED <<namevars, site, loaded, status_file, files, extralinks, requests, faults, main>>

\* lines 170-176: the coroutines built for the links of a page.
Scheduled(links) == {link \in links : ~Denylisted(link)}

KindOf(link) == IF IsPdfLink(link) THEN "pdf" ELSE "scrape"

Spawn(t, links) ==
  LET new == {t \o <<link>> : link \in Scheduled(links)}
  IN  [c \in DOMAIN tasks \cup new |->
         IF c \in new THEN NewTask(KindOf(Url(c))) ELSE tasks[c]]

LogExternal(logged) ==
  extralinks' = [u \in AllURLs |-> extralinks[u] + Count(logged, u)]

\* where an exception of lines 166-178 would take the call with no handler
ProcessErrorUncaught == "raised"

\* lines 179-182: except Exception catches it, then save_status
OnProcessError == "saving"

\* scrape, lines 165-177, up to the await of gather: BeautifulSoup,
\* extract_links (lines 94-107), process_page (lines 134-144) and the loop
\* that builds the child tasks.  out = "ok", or the place where an exception
\* is raised: "parse" (BeautifulSoup / get_text), "extract" (add_to_extralinks
\* fails on the k-th href), "write" (write_text fails).  The handler of line
\* 179 catches it and the call goes on to save_status.
Process(t, out, k) ==
  LET url == Url(t)
      n   == Len(Hrefs(url))
  IN
  /\ Running
  /\ tasks[t].kind = "scrape" /\ tasks[t].pc = "process"
  /\ \/ /\ out = "ok" /\ k = 0
        /\ LogExternal(ExternalLinks(url, n))
        /\ files' = [files EXCEPT ![create_file(url)] = @ + 1]
        /\ tasks' = [Spawn(t, ExtractedLinks(url, n)) EXCEPT
                       ![t] = [tasks[t] EXCEPT !.pc = "gathering", !.extracted = "returned",
                                 !.wrote = TRUE, !.links = ExtractedLinks(url, n),
                                 !.logged = ExternalLinks(url, n)]]
        /\ faults' = faults
     \/ /\ out = "parse" /\ k = 0
        /\ faults < MaxFaults /\ faults' = faults + 1
        /\ tasks' = [tasks EXCEPT ![t].pc = OnProcessError]
        /\ UNCHANGED <<extralinks, files>>
     \/ /\ out = "extract" /\ k \in 1..n /\ ~check_link(Hrefs(url)[k])
        /\ faults < MaxFaults /\ faults' = faults + 1
        /\ LogExternal(ExternalLinks(url, k - 1))
        /\ tasks' = [tasks EXCEPT ![t].pc = OnProcessError, ![t].extracted = "raised",
                                  ![t].logged = ExternalLinks(url, k - 1)]
        /\ UNCHANGED files
     \/ /\ out = "write" /\ k = 0
        /\ faults < MaxFaults /\ faults' = faults + 1
        /\ LogExternal(ExternalLinks(url, n))
        /\ tasks' = [tasks EXCEPT ![t].pc = OnProcessError, ![t].extracted = "returned",
                                  ![t].links = ExtractedLinks(url, n),
                                  ![t].logged = ExternalLinks(url, n)]
        /\ UNCHANGED files
  /\ UNCHANGED <<namevars, site, loaded, visitedlinks, status_file, lock, requests, finalizes, main>>

\* gather as it would be with return_exceptions=True: it waits for every child
\* and raises nothing
GatherAllSettled(t) ==
  IF \A c \in Children(t) : Finished(c) THEN "returned" ELSE "waiting"

\* line 177: what await asyncio.gather(*tasks) does once the call can go on:
\* the first exception of a child is raised in the parent at once, the other
\* children keep running; without one, it returns when every child is done.
GatherOutcome(t) ==
  IF \E c \in Children(t) : tasks[c].pc = "raised" THEN "exception"
  ELSE IF \A c \in Children(t) : tasks[c].pc = "done" THEN "returned"
  ELSE "waiting"

\* scrape, lines 177-180
Gather(t) ==
  /\ Running
  /\ tasks[t].kind = "scrape" /\ tasks[t].pc = "gathering"
  /\ GatherOutcome(t) # "waiting"
  /\ tasks' = [tasks EXCEPT ![t].pc =
                 IF GatherOutcome(t) = "exception" THEN "saving" ELSE "sleeping"]
  /\ UNCHANGED <<namevars, site, loaded, visitedlinks, status_file, files, extralinks,
                 lock, requests, finalizes, faults, main>>

\* scrape, line 178: asyncio.sleep(request_delay) is over
Sleep(t) ==
  /\ Running
  /\ tasks[t].kind = "scrape" /\ tasks[t].pc = "sleeping"
  /\ tasks' = [tasks EXCEPT ![t].pc = "saving"]
  /\ UNCHANGED <<namevars, site, loaded, visitedlinks, status_file, files, extralinks,
                 lock, requests, finalizes, faults, main>>

\* scrape, line 182, and save_status, lines 34-39.  When the write fails the
\* exception leaves scrape; the file is as it was (open failed) or empty
\* (open truncated it and the dump failed).
SaveStatus(t, ok) ==
  /\ Running
  /\ tasks[t].kind = "scrape" /\ tasks[t].pc = "saving"
  /\ IF ok
     THEN /\ status_file' = visitedlinks
          /\ faults' = faults
          /\ tasks' = [tasks EXCEPT ![t].pc = "done"]
     ELSE /\ faults < MaxFaults /\ faults' = faults + 1
          /\ status_file' \in {status_file, EmptyLedger}
          /\ tasks' = [tasks EXCEPT ![t].pc = "raised"]
  /\ UNCHANGED <<namevars, site, loaded, visitedlinks, files, extralinks, lock, requests,
                 finalizes, main>>

\* download_pdf, line 189: the GET is sent.
PdfRequest(t) ==
  /\ Running
  /\ tasks[t].kind = "pdf" /\ tasks[t].pc = "start"
  /\ SendGet(Url(t))
  /\ tasks' = [tasks EXCEPT ![t].pc = "downloading"]
  /\ UNCHANGED <<namevars, site, loaded, visitedlinks, status_file, files, extralinks,
                 lock, finalizes, faults, main>>

\* download_pdf, lines 189-199: the response.  "ok": status 200 and write_pdf
\* (lines 52-58) wrote the file; "bad": another status; "exc": session.get or
\* response.read raised; "write": write_pdf raised.  Both exceptions are
\* caught at line 197.
PdfResponse(t, resp) ==
  /\ Running
  /\ tasks[t].kind = "pdf" /\ tasks[t].pc = "downloading"
  /\ \/ /\ resp = "ok"
        /\ files' = [files EXCEPT ![pdf_filename(Url(t))] = @ + 1]
        /\ faults' = faults
     \/ /\ resp = "bad"
        /\ UNCHANGED <<files, faults>>
     \/ /\ resp \in {"exc", "write"}
        /\ faults < MaxFaults /\ faults' = faults + 1
        /\ UNCHANGED files
  /\ tasks' = [tasks EXCEPT ![t].pc = AfterFetch(resp), ![t].resp = resp]
  /\ UNCHANGED <<namevars, site, loaded, visitedlinks, status_file, extralinks, lock,
                 requests, finalizes, main>>

\* download_pdf, lines 192-193, 195-196 and 199-200
PdfFinalize(t) ==
  /\ Running
  /\ tasks[t].kind = "pdf" /\ tasks[t].pc \in {"succ_cs", "fail_cs"} /\ lock = t
  /\ SetStatus(Url(t), IF tasks[t].pc = "succ_cs" THEN "success" ELSE "failed")
  /\ lock' = NoTask
  /\ tasks' = [tasks EXCEPT ![t].pc = "done"]
  /\ UNCHANGED <<namevars, site, loaded, status_file, files, extralinks, requests, faults, main>>

\* main, lines 219-228: the root call has returned or raised; asyncio.run
\* cancels every task that is left and closes the loop.
MainReturn ==
  /\ Running
  /\ Finished(RootTask)
  /\ main' = IF tasks[RootTask].pc = "done" THEN "returned" ELSE "crashed"
  /\ tasks' = [t \in DOMAIN tasks |->
                 IF Finished(t) THEN tasks[t] ELSE [tasks[t] EXCEPT !.pc = "cancelled"]]
  /\ lock' = NoTask
  /\ UNCHANGED <<namevars, site, loaded, visitedlinks, status_file, files, extralinks,
                 requests, finalizes, faults>>

Next ==
  \/ \E t \in DOMAIN tasks : Acquire(t)
  \/ \E t \in DOMAIN tasks : Claim(t)
  \/ \E t \in DOMAIN tasks, resp \in {"ok", "bad", "exc"} : FetchResponse(t, resp)
  \/ \E t \in DOMAIN tasks : FinalizeFailed(t)
  \/ \E t \in DOMAIN tasks : FinalizeSuccess(t)
  \/ \E t \in DOMAIN tasks, out \in {"ok", "parse", "extract", "write"}, k \in 0..4 :
       Process(t, out, k)
  \/ \E t \in DOMAIN tasks : Gather(t)
  \/ \E t \in DOMAIN tasks : Sleep(t)
  \/ \E t \in DOMAIN tasks, ok \in BOOLEAN : SaveStatus(t, ok)
  \/ \E t \in DOMAIN tasks : PdfRequest(t)
  \/ \E t \in DOMAIN tasks, resp \in {"ok", "bad", "exc", "write"} : PdfResponse(t, resp)
  \/ \E t \in DOMAIN tasks : PdfFinalize(t)
  \/ MainReturn

Spec == Init /\ [][Next]_vars

-----------------------------------------------------------------------------
(* Properties *)

InDomain(url) == Netloc(url) = Netloc(Sites[site].root)

\* the path of the URL ends in .pdf
PathEndsPdf(url) == EndsWith(Lower(PathOf(url)), ".pdf")

\* the crawl starts from a page, as the mainurl of line 204 does
RootIsPage == ~PathEndsPdf(mainurl)

\* the scrape call t got as far as sending its GET
Fetched(t) == tasks[t].claimed

\* C1: for every URL at most one scrape call passes the claim of lines
\* 150-153; every other call for that URL returns at once: it sends no GET,
\* extracts nothing, spawns nothing, and its claim step leaves the ledger and
\* the requests as they were.
C1_AtMostOneClaim ==
  /\ \A t1, t2 \in Scrapes :
       Url(t1) = Url(t2) /\ tasks[t1].claimed /\ tasks[t2].claimed => t1 = t2
  /\ \A t \in Scrapes :
       ~tasks[t].claimed =>
         /\ tasks[t].pc \in {"start", "claim", "done", "cancelled"}
         /\ tasks[t].resp = "none"
         /\ tasks[t].extracted = "no"
         /\ Children(t) = {}

C1_SkipChangesNothing ==
  \A t \in DOMAIN tasks :
    tasks[t].pc = "claim" /\ tasks'[t].pc = "done" =>
      visitedlinks' = visitedlinks /\ requests' = requests /\ finalizes' = finalizes

\* C1: at most one claim per URL in every reachable state, and a claim step
\* that finds the URL taken changes neither the ledger nor the requests.
C1_ClaimOnce == []C1_AtMostOneClaim /\ [][C1_SkipChangesNothing]_vars

\* two calls for one URL: one holds the claim and is still fetching, the
\* other came later and has returned without it
C1_Witness ==
  \E t1, t2 \in Scrapes :
    /\ t1 # t2 /\ Url(t1) = Url(t2)
    /\ tasks[t1].claimed /\ tasks[t1].pc = "fetching"
    /\ ~tasks[t2].claimed /\ tasks[t2].pc = "done"

\* the pages fetched with status 200 in this run
PageOK(url) == \E t \in Scrapes : Url(t) = url /\ tasks[t].resp = "ok"

RECURSIVE ReachFrom(_, _)
ReachFrom(S, n) ==
  IF n = 0 THEN S
  ELSE ReachFrom(S \cup {v \in AllURLs :
                           \E u \in S : /\ PageOK(u)
                                        /\ \E i \in 1..Len(Hrefs(u)) : Hrefs(u)[i] = v
                                        /\ InDomain(v) /\ ~Denylisted(v)},
                 n - 1)

\* the URLs reachable from the root through successfully fetched pages
Reachable == ReachFrom({mainurl}, Cardinality(AllURLs))

\* C2: a crawl that starts from a page on an empty ledger and in which
\* nothing raised has sent, when main returns, exactly one GET for every
\* reachable URL.
C2_OneRequestEach ==
  (RootIsPage /\ loaded = EmptyLedger /\ faults = 0 /\ main = "returned") =>
    \A u \in Reachable : requests[u] = 1

\* C3: in a crawl that starts from a page, no URL has had both terminal
\* statuses written to its entry.
C3_OneTerminalStatus ==
  RootIsPage => \A f1, f2 \in finalizes : f1.url = f2.url => f1.new = f2.new

\* C4: in a crawl that starts from a page, every terminal status was written
\* over an entry that was "pending" at that moment.
C4_FinalizeOnlyPending == RootIsPage => \A f \in finalizes : f.prev = "pending"

\* C5: a URL that is terminal in the loaded ledger gets no GET and keeps its
\* status.
C5_TerminalNotRefetched ==
  \A u \in AllURLs :
    loaded[u] \in Terminal => requests[u] = 0 /\ visitedlinks[u] = loaded[u]

\* C6: a scrape call whose fetch came back with a non-success status goes
\* only to the write of "failed": it extracts no links, writes no text, spawns
\* no child, and when it has returned the entry of its URL is "failed".
C6_FailedFetchPruned ==
  \A t \in Scrapes :
    tasks[t].resp = "bad" =>
      /\ tasks[t].pc \in {"fail_wait", "fail_cs", "done", "cancelled"}
      /\ tasks[t].extracted = "no" /\ ~tasks[t].wrote /\ tasks[t].links = {}
      /\ Children(t) = {}
      /\ tasks[t].pc = "done" => visitedlinks[Url(t)] = "failed"

\* a linked page whose fetch failed has returned, marked failed
C6_Witness ==
  \E t \in Scrapes :
    /\ t # RootTask /\ Hrefs(Url(t)) # <<>>
    /\ tasks[t].resp = "bad" /\ tasks[t].pc = "done"
    /\ visitedlinks[Url(t)] = "failed"

\* C7: a call whose GET raised ends with its URL "failed" and raises nothing.
C7_TransportErrorFails ==
  \A t \in DOMAIN tasks :
    tasks[t].resp = "exc" =>
      /\ tasks[t].pc # "raised"
      /\ tasks[t].pc = "done" => visitedlinks[Url(t)] = "failed"

\* C8: in a run without transport errors, a scrape call that has returned or
\* raised has no child still running, and once main has returned no task was
\* cut short and no URL claimed in the run is "pending".
C8_ReturnsAfterChildren ==
  (\A t \in DOMAIN tasks : tasks[t].resp # "exc") =>
    /\ \A t \in Scrapes : Finished(t) => \A c \in Children(t) : Finished(c)
    /\ ~Running =>
         /\ \A t \in DOMAIN tasks : tasks[t].pc # "cancelled"
         /\ \A u \in AllURLs : visitedlinks[u] = "pending" => loaded[u] = "pending"

\* C9: in a crawl that starts from a page, no URL whose path ends in .pdf
\* goes through the HTML fetch of scrape.
C9_PdfNeverScraped ==
  RootIsPage => \A t \in Scrapes : PathEndsPdf(Url(t)) => ~Fetched(t)

RECURSIVE SumLogged(_, _)
SumLogged(T, x) ==
  IF T = {} THEN 0
  ELSE LET t == CHOOSE t \in T : TRUE
       IN  Count(tasks[t].logged, x) + SumLogged(T \ {t}, x)

\* C10: when extract_links has returned for a page, each href whose host is
\* the target host is in the returned set and was not logged, each other href
\* was logged once per occurrence and is not in the set; the external-link
\* log holds exactly what the calls logged; and no URL of another host has a
\* task, a GET, a ledger entry or a stored status.
C10_ExactHostPartition ==
  /\ \A t \in Scrapes :
       tasks[t].extracted = "returned" =>
         \A i \in 1..Len(Hrefs(Url(t))) :
           LET x == Hrefs(Url(t))[i]
           IN  IF InDomain(x)
               THEN x \in tasks[t].links /\ Count(tasks[t].logged, x) = 0
               ELSE x \notin tasks[t].links
                    /\ Count(tasks[t].logged, x) = Count(Hrefs(Url(t)), x)
  /\ \A x \in AllURLs : extralinks[x] = SumLogged(DOMAIN tasks, x)
  /\ \A x \in AllURLs :
       ~InDomain(x) =>
         /\ visitedlinks[x] = Absent /\ requests[x] = 0
         /\ \A t \in DOMAIN tasks : Url(t) # x
         /\ \A f \in finalizes : f.url # x

\* a page with an in-domain link and a twice-linked external URL has been
\* through extract_links
C10_Witness ==
  \E t \in Scrapes :
    /\ tasks[t].extracted = "returned"
    /\ tasks[t].links # {}
    /\ \E x \in AllURLs : Count(tasks[t].logged, x) = 2 /\ extralinks[x] >= 2

\* the step in which call t runs save_status (line 182) and returns
Saves(t) == tasks[t].pc = "saving" /\ tasks'[t].pc = "done"

\* C11: in a crawl that starts from a page on an empty ledger and in which
\* nothing raised, at every call of save_status by the scrape call of u, the
\* entry of u is terminal and so is the entry of every link of u's page that
\* was scheduled.
C11_SavedSubtreeComplete ==
  [][(RootIsPage /\ loaded = EmptyLedger /\ faults = 0) =>
       \A t \in Scrapes :
         Saves(t) =>
           /\ visitedlinks[Url(t)] \in Terminal
           /\ \A v \in Scheduled(tasks[t].links) : visitedlinks[v] \in Terminal]_vars

\* C12: when the root call has returned from a run in which nothing raised,
\* linkscraped.json holds the ledger that is in memory.
C12_FileMatchesLedger ==
  (faults = 0 /\ main = "returned") => status_file = visitedlinks

\* The event loop runs every task that can go on, every response arrives and
\* every delay elapses: a step is taken as long as one is possible.
SpecFair == Spec /\ WF_vars(Next)

\* C13: the root scrape call eventually ends: it returns, or, when something
\* raised during the run, it returns or raises.
C13_RootReturns ==
  <>(Finished(RootTask) /\ (faults = 0 => tasks[RootTask].pc = "done"))

\* the root call has returned from a crawl in which a page linked back to the
\* root
C13_Witness ==
  /\ main = "returned"
  /\ \E t \in Scrapes : t # RootTask /\ Url(t) = mainurl /\ tasks[t].pc = "done"

\* an exception was raised in call t by BeautifulSoup, extract_links or
\* process_page (lines 166-168), after the fetch had succeeded
ProcessRaised(t) ==
  /\ tasks[t].kind = "scrape" /\ tasks[t].resp = "ok"
  /\ tasks[t].pc \in {"saving", "done", "raised"}
  /\ ~tasks[t].wrote

\* C14: when processing the fetched page of u raised, the call of u goes on
\* to save_status and spawns nothing, the entry of u stays "success", the call
\* raises only if save_status fails as well (a second exception), and when
\* that exception is the only one of the run, main returns with every task
\* done: no sibling and no ancestor was cut short.
C14_ProcessErrorContained ==
  \A t \in Scrapes :
    ProcessRaised(t) =>
      /\ visitedlinks[Url(t)] = "success"
      /\ Children(t) = {}
      /\ tasks[t].pc = "raised" => faults >= 2
      /\ (faults = 1 /\ ~Running) =>
           main = "returned" /\ \A c \in DOMAIN tasks : tasks[c].pc = "done"

\* processing raised in a linked page; its sibling was fetched and processed
\* and the crawl has returned
C14_Witness ==
  \E t, c \in Scrapes :
    /\ t # RootTask /\ c # t /\ Parent(c) = Parent(t)
    /\ ProcessRaised(t) /\ tasks[t].pc = "done"
    /\ tasks[c].wrote /\ tasks[c].pc = "done"
    /\ main = "returned"

\* add_to_extralinks or write_text failed in the scrape call t
ProcessWriteFailed(t) ==
  /\ tasks[t].kind = "scrape"
  /\ \/ tasks[t].extracted = "raised"
     \/ tasks[t].extracted = "returned" /\ ~tasks[t].wrote
        /\ tasks[t].pc \in {"saving", "done", "raised"}

\* write_pdf failed in the download_pdf call t
PdfWriteFailed(t) == tasks[t].kind = "pdf" /\ tasks[t].resp = "write"

\* save_status failed in the scrape call t: the only exception that leaves a
\* call whose fetch succeeded
SaveFailed(t) ==
  tasks[t].kind = "scrape" /\ tasks[t].resp = "ok" /\ tasks[t].pc = "raised"

\* the calls that wrote the file f
WritersOf(f) ==
  {t \in Scrapes : tasks[t].wrote /\ create_file(Url(t)) = f}
    \cup {t \in Downloads : tasks[t].resp = "ok" /\ pdf_filename(Url(t)) = f}

-----------------------------------------------------------------------------
(* File naming on its own: create_file and write_pdf applied to URLs built *)
(* from a scheme, a host, a path and a query or fragment.                  *)

\* Longest path, in tokens, of the URLs the naming is applied to.
MaxPathLen == 4

NameTokens == {"/", "a", ".txt", ".pdf"}

NamePaths ==
  {p \in UNION {[1..n -> NameTokens] : n \in 0..MaxPathLen} : p = <<>> \/ p[1] = "/"}

\* the parts a URL is written from
NameParts ==
  [scheme : {"http://", "https://"}, host : {"h.tld", "o.h.tld"},
   path : NamePaths, rest : {<<>>, <<"?", "v">>, <<"#", "f">>}]

\* the text of the URL
UrlText(u) == <<u.scheme, u.host>> \o u.path \o u.rest

NoName == [op |-> "none", name |-> <<>>]

InitNames ==
  /\ name_url \in NameParts
  /\ name_out = NoName
  /\ site = 1
  /\ loaded = EmptyLedger
  /\ visitedlinks = loaded
  /\ status_file = loaded
  /\ files = [f \in FileNames |-> 0]
  /\ extralinks = [u \in AllURLs |-> 0]
  /\ lock = NoTask
  /\ tasks = [t \in {<<Sites[site].root>>} |-> NewTask("scrape")]
  /\ requests = [u \in AllURLs |-> 0]
  /\ finalizes = {}
  /\ faults = 0
  /\ main = "running"

crawlvars == <<site, loaded, visitedlinks, status_file, files, extralinks,
               lock, tasks, requests, finalizes, faults, main>>

\* write_text, line 64: the file it opens
WriteTextName ==
  /\ name_out = NoName
  /\ name_out' = [op |-> "write_text", name |-> create_file(UrlText(name_url))]
  /\ UNCHANGED <<name_url, crawlvars>>

\* write_pdf, line 56: the file it opens; download_pdf is called for the links
\* of line 173 only
WritePdfName ==
  /\ name_out = NoName
  /\ IsPdfLink(UrlText(name_url))
  /\ name_out' = [op |-> "write_pdf", name |-> pdf_filename(UrlText(name_url))]
  /\ UNCHANGED <<name_url, crawlvars>>

\* the next URL: one part of it is changed
NextUrl ==
  /\ name_out # NoName
  /\ \/ \E s \in {"http://", "https://"} : name_url' = [name_url EXCEPT !.scheme = s]
     \/ \E h \in {"h.tld", "o.h.tld"} : name_url' = [name_url EXCEPT !.host = h]
     \/ \E r \in {<<>>, <<"?", "v">>, <<"#", "f">>} :
          name_url' = [name_url EXCEPT !.rest = r]
     \/ \E p \in NamePaths :
          /\ \/ Len(p) = Len(name_url.path) + 1 /\ SubSeq(p, 1, Len(p) - 1) = name_url.path
             \/ Len(name_url.path) = Len(p) + 1 /\ SubSeq(name_url.path, 1, Len(p)) = p
          /\ name_url' = [name_url EXCEPT !.path = p]
  /\ name_url' # name_url
  /\ name_out' = NoName
  /\ UNCHANGED crawlvars

NextNames == WriteTextName \/ WritePdfName \/ NextUrl

SpecNames == InitNames /\ [][NextNames]_vars

RECURSIVE DropLeadingSlashes(_)
DropLeadingSlashes(p) ==
  IF p # <<>> /\ Head(p) = "/" THEN DropLeadingSlashes(Tail(p)) ELSE p

RECURSIVE DropTrailingSlashes(_)
DropTrailingSlashes(p) ==
  IF p # <<>> /\ p[Len(p)] = "/"
  THEN DropTrailingSlashes(SubSeq(p, 1, Len(p) - 1)) ELSE p

RECURSIVE SlashesToUnderscores(_)
SlashesToUnderscores(p) ==
  IF p = <<>> THEN <<>>
  ELSE <<IF Head(p) = "/" THEN "_" ELSE Head(p)>> \o SlashesToUnderscores(Tail(p))

\* data_folder/<host>_<p> as the naming is described, from the host and the
\* path the URL was written from
DescribedBase(u) ==
  LET q == SlashesToUnderscores(DropTrailingSlashes(DropLeadingSlashes(u.path)))
  IN  data_folder \o <<"/", u.host, "_">> \o (IF q = <<>> THEN <<"index">> ELSE q)

\* The part of C16 about create_file: the name is data_folder/<host>_<p>.txt
\* and is the same for every scheme, query and fragment.
C16_TextNameAsDescribed ==
  name_out.op = "write_text" =>
    /\ name_out.name = DescribedBase(name_url) \o <<".txt">>
    /\ \A v \in NameParts :
         v.host = name_url.host /\ v.path = name_url.path =>
           create_file(UrlText(v)) = name_out.name

\* C16: create_file names data_folder/<host>_<p>.txt, whatever the scheme,
\* query and fragment, and write_pdf names the same base with .pdf.
C16_NamesAsDescribed ==
  /\ C16_TextNameAsDescribed
  /\ name_out.op = "write_pdf" =>
       name_out.name = DescribedBase(name_url) \o <<".pdf">>

-----------------------------------------------------------------------------
\* C17: a ledger entry that is "success" or "failed", loaded or set during the
\* run, is never set back to "pending", and no entry is ever removed.
C17_TerminalNeverReset ==
  [][\A u \in AllURLs :
       /\ visitedlinks[u] \in Terminal => visitedlinks'[u] # "pending"
       /\ visitedlinks[u] # Absent => visitedlinks'[u] # Absent]_vars

\* a call of scrape for a URL finished earlier in this run, and one for a URL
\* finished in the loaded ledger, have both returned at the claim
C17_Witness ==
  /\ \E t \in Scrapes :
       /\ ~tasks[t].claimed /\ tasks[t].pc = "done"
       /\ loaded[Url(t)] = Absent /\ visitedlinks[Url(t)] \in Terminal
  /\ \E t \in Scrapes :
       /\ ~tasks[t].claimed /\ tasks[t].pc = "done"
       /\ loaded[Url(t)] \in Terminal /\ visitedlinks[Url(t)] = loaded[Url(t)]

\* C18: during one run each stored document path is written at most once.
C18_PathWrittenOnce ==
  (RootIsPage /\ faults = 0) => \A f \in FileNames : files[f] <= 1

\* C19: a URL that is "pending" in the loaded ledger is never fetched by
\* scrape, its links are never explored, and its entry stays "pending".
C19_LoadedPendingSkipped ==
  \A u \in AllURLs :
    loaded[u] = "pending" =>
      /\ visitedlinks[u] = "pending"
      /\ requests[u] = 0
      /\ \A t \in Scrapes :
           Url(t) = u =>
             /\ ~tasks[t].claimed /\ tasks[t].resp = "none"
             /\ tasks[t].extracted = "no" /\ ~tasks[t].wrote
             /\ Children(t) = {}
             /\ tasks[t].pc \in {"start", "claim", "done", "cancelled"}

\* the run has ended and a call of scrape for the loaded pending URL returned
C19_Witness ==
  /\ main = "returned"
  /\ \E t \in Scrapes :
       loaded[Url(t)] = "pending" /\ tasks[t].pc = "done" /\ Parent(t) \in Scrapes

\* the task is at a suspension point: the GET of fetch or of download_pdf, the
\* gather of its children, or the delay of line 178
Suspended(t) == tasks[t].pc \in {"fetching", "downloading", "gathering", "sleeping"}

\* C20: the lock is held only inside a critical section, never by a task at a
\* suspension point or by one that has returned, so a task waiting for the
\* lock waits for a holder that can go on and release it.
C20_LockNotHeldAcrossSuspension ==
  /\ lock # NoTask =>
       /\ lock \in DOMAIN tasks
       /\ tasks[lock].pc \in {"claim", "fail_cs", "succ_cs"}
       /\ ~Suspended(lock) /\ ~Finished(lock)
  /\ ~Running => lock = NoTask

\* a task that came back from its GET is in a critical section while a second
\* one waits for the lock and a third one is suspended
C20_Witness ==
  /\ lock # NoTask /\ tasks[lock].pc \in {"fail_cs", "succ_cs"}
  /\ \E t \in DOMAIN tasks : t # lock /\ LockPoint(t)
  /\ \E t \in DOMAIN tasks : t # lock /\ Suspended(t)

====
